---------------------------- MODULE Spec2Model ----------------------------
(***************************************************************************)
(* A model of vectorDBpipe: the FAISS-backed vector stores                 *)
(* (vectordb/faiss_client.py FaissDatabase, vectordb/store.py              *)
(* FaissVectorStore), their two-file persistence, and the batching loop of *)
(* VDBpipe.ingest (pipeline/vdbpipe.py).                                   *)
(*                                                                         *)
(* Python values are encoded as follows.                                   *)
(*   None              the empty tuple <<>>                                *)
(*   a list            a sequence                                          *)
(*   a dict            a function whose domain is the set of its keys      *)
(*   a vector          a tuple of integers, its width being its dimension  *)
(*   an id string      a tagged tuple: <<"u", n>> an id chosen by the      *)
(*                     caller, <<"id_", n>> the f"id_{n}" of store.py,     *)
(*                     <<"str", n>> the str(n) of store.py                 *)
(*   a faiss index     [d |-> dimension, xb |-> the vectors, in order];    *)
(*                     d = 0 stands for "self.index is None"               *)
(***************************************************************************)
EXTENDS Integers, Sequences, FiniteSets, TLC

\* ------------------------------------------------------------------ bounds
MaxVectors == 3      \* SpecStore: no add is tried that would take the index past this
MaxSearched == 2     \* SpecSearch: the same, for the index that is searched
BatchLens == 0..2    \* the lengths of the embeddings lists given to one add

\* ------------------------------------------------------------ input values
None == <<>>
EmptyDict == [key \in {} |-> None]
Dims == {1, 2}
VectorsOfDim(d) == IF d = 1 THEN {<<0>>, <<1>>} ELSE {<<0, 1>>}
Min(a, b) == IF a < b THEN a ELSE b
\* The text a caller pairs with vector v (the chunk whose embedding v is).
Doc(v) == <<"doc", v>>
\* The id a caller gives the vector it means to become index position p.
UserId(p) == <<"u", p>>
Head2(s, n) == SubSeq(s, 1, Min(n, Len(s)))

\* ------------------------------------------------------------- faiss index
NoIndex == [d |-> 0, xb |-> <<>>]
IndexFlatL2(d) == [d |-> d, xb |-> <<>>]
ntotal(ix) == Len(ix.xb)
\* index.add(x) refuses a batch whose width is not the index's dimension.
index_add_accepts(ix, x) == \A i \in 1..Len(x) : Len(x[i]) = ix.d
index_add(ix, x) == [ix EXCEPT !.xb = @ \o x]

\* ------------------------------------------------------------------- files
AbsentFile == [state |-> "absent", data |-> None]
TornFile == [state |-> "torn", data |-> None]
WrittenFile(data) == [state |-> "ok", data |-> data]
Exists(f) == f.state # "absent"

\* The points of a save at which the process may die.  "done": it does not.
CrashPoints == {"before_index", "torn_index", "between", "torn_meta"}
\* save(): faiss.write_index(index, index_path), then pickle.dump to meta_path.
\* The two files after a save of store s that stops at point cp.
save_index_file(s, old, cp) ==
    CASE cp = "before_index" -> old
      [] cp = "torn_index" -> TornFile
      [] OTHER -> WrittenFile(s.index)
save_meta_file(s, old, cp) ==
    CASE cp \in {"before_index", "torn_index", "between"} -> old
      [] cp = "torn_meta" -> TornFile
      [] OTHER -> WrittenFile(s.metadata_store)

\* ------------------------------------------------------------- the stores
Classes == {"FaissDatabase", "FaissVectorStore"}
MetaCount(s) == Cardinality(DOMAIN s.metadata_store)

\* FaissDatabase.__init__ with no files: IndexFlatL2(dimension), [].
\* FaissVectorStore.__init__ with no files: index None, dimension None, {}.
NewStore(cls, dimension) ==
    IF cls = "FaissDatabase"
    THEN [cls |-> cls, dimension |-> dimension,
          index |-> IndexFlatL2(dimension), metadata_store |-> <<>>]
    ELSE [cls |-> cls, dimension |-> 0,
          index |-> NoIndex, metadata_store |-> <<>>]

\* What an operation hands back: the store after it, the error it raised
\* ("none": it returned), and whether it reached its save.
Outcome(s, err, saved) == [s |-> s, err |-> err, saved |-> saved]


\* -------------------------------------------------------- FaissDatabase.add
\* The records add appends before it returns or raises: one per embedding,
\* until documents[i] runs out (IndexError).
FaissDatabase_records(embeddings, documents, metadata, ids) ==
    [i \in 1..Min(Len(embeddings), Len(documents)) |->
        [document |-> documents[i],
         metadata |-> IF Len(metadata) >= i THEN metadata[i] ELSE EmptyDict,
         id |-> IF ids # None /\ Len(ids) >= i THEN ids[i] ELSE None]]

FaissDatabase_add(s, embeddings, documents, metadata, ids) ==
    IF embeddings = <<>> THEN Outcome(s, "none", FALSE)
    ELSE IF ~index_add_accepts(s.index, embeddings)
    THEN Outcome(s, "DimensionMismatch", FALSE)
    ELSE LET added == [s EXCEPT
                 !.index = index_add(s.index, embeddings),
                 !.metadata_store =
                     @ \o FaissDatabase_records(embeddings, documents, metadata, ids)]
         IN  IF Len(documents) < Len(embeddings)
             THEN Outcome(added, "IndexError", FALSE)
             ELSE Outcome(added, "none", TRUE)

\* ------------------------------------------ FaissVectorStore.insert_vectors
\* if "id" not in meta: meta["id"] = f"id_{internal_id}"
WithId(meta, internal_id) ==
    IF "id" \in DOMAIN meta THEN meta
    ELSE [key \in DOMAIN meta \cup {"id"} |->
             IF key = "id" THEN <<"id_", internal_id>> ELSE meta[key]]

\* insert_vectors with the metadata loop moved before index.add.
insert_vectors_metadata_first(s, vectors, metadata) ==
    IF vectors = <<>> THEN Outcome(s, "none", FALSE)
    ELSE LET s1 == IF s.index.d = 0
                   THEN [s EXCEPT !.dimension = Len(vectors[1]),
                                  !.index = IndexFlatL2(Len(vectors[1]))]
                   ELSE s
             start_id == ntotal(s1.index)
             metas == IF metadata = None THEN <<>> ELSE metadata
             keys == {start_id + i - 1 : i \in 1..Len(metas)}
             stored == [key \in DOMAIN s1.metadata_store \cup keys |->
                           IF key \in keys
                           THEN WithId(metas[key - start_id + 1], key)
                           ELSE s1.metadata_store[key]]
             s2 == [s1 EXCEPT !.metadata_store = stored]
         IN  IF ~index_add_accepts(s1.index, vectors)
             THEN Outcome(s2, "DimensionMismatch", FALSE)
             ELSE Outcome([s2 EXCEPT !.index = index_add(s1.index, vectors)],
                          "none", TRUE)

FaissVectorStore_insert_vectors(s, vectors, metadata) ==
    IF vectors = <<>> THEN Outcome(s, "none", FALSE)
    ELSE LET s1 == IF s.index.d = 0
                   THEN [s EXCEPT !.dimension = Len(vectors[1]),
                                  !.index = IndexFlatL2(Len(vectors[1]))]
                   ELSE s
             start_id == ntotal(s1.index)
             metas == IF metadata = None THEN <<>> ELSE metadata
             keys == {start_id + i - 1 : i \in 1..Len(metas)}
             stored == [key \in DOMAIN s1.metadata_store \cup keys |->
                           IF key \in keys
                           THEN WithId(metas[key - start_id + 1], key)
                           ELSE s1.metadata_store[key]]
         IN  IF ~index_add_accepts(s1.index, vectors)
             THEN Outcome(s1, "DimensionMismatch", FALSE)
             ELSE Outcome([s1 EXCEPT !.index = index_add(s1.index, vectors),
                                     !.metadata_store = stored],
                          "none", TRUE)

\* ------------------------------------------------------------------ loading
\* FaissDatabase._load_or_initialize and FaissVectorStore.__init__/load_index:
\* both files present: read both (a torn file does not parse); else start new.
\* No comparison of the two record counts is made.
load_or_initialize(cls, dimension, fi, fm) ==
    IF Exists(fi) /\ Exists(fm)
    THEN IF fi.state = "torn" \/ fm.state = "torn"
         THEN Outcome(NewStore(cls, dimension), "LoadError", FALSE)
         ELSE Outcome([cls |-> cls,
                       dimension |-> IF cls = "FaissDatabase" THEN dimension ELSE 0,
                       index |-> fi.data, metadata_store |-> fm.data],
                      "none", FALSE)
    ELSE Outcome(NewStore(cls, dimension), "none", FALSE)

\* ------------------------------------------------------------------- search
RECURSIVE SumSq(_, _, _)
SumSq(a, b, i) ==
    IF i = 0 THEN 0 ELSE (a[i] - b[i]) * (a[i] - b[i]) + SumSq(a, b, i - 1)
\* IndexFlatL2's distance: the squared Euclidean distance.
L2(a, b) == SumSq(a, b, Len(a))

\* index.search(q, k): the k nearest positions (0-based), nearest first, padded
\* with -1 when the index holds fewer than k.  Which of several equally distant
\* vectors comes first, or is cut off at k, is the library's choice.
index_search(ix, q, k) ==
    LET n == ntotal(ix)
        m == Min(n, k)
        dist(p) == L2(ix.xb[p + 1], q)
    IN  {I \in [1..k -> -1..(n - 1)] :
            /\ \A j \in 1..k : (j <= m) <=> (I[j] # -1)
            /\ \A i, j \in 1..m : i < j => I[i] # I[j] /\ dist(I[i]) <= dist(I[j])
            /\ \A p \in 0..(n - 1) :
                   (\A j \in 1..m : I[j] # p) => dist(p) >= dist(I[m])}

SearchOutcome(s, err, results) == [s |-> s, err |-> err, results |-> results]

RECURSIVE FaissDatabase_results(_, _, _, _)
FaissDatabase_results(s, q, I, i) ==
    IF i > Len(I) THEN <<>>
    ELSE LET idx == I[i]
         IN  (IF idx # -1 /\ idx < Len(s.metadata_store)
              THEN <<[id |-> s.metadata_store[idx + 1].id,
                      document |-> s.metadata_store[idx + 1].document,
                      metadata |-> s.metadata_store[idx + 1].metadata,
                      score |-> <<L2(s.index.xb[idx + 1], q), 1>>]>>
              ELSE <<>>) \o FaissDatabase_results(s, q, I, i + 1)

\* search with the empty-index return left out: the query goes to the index.
search_without_empty_check(s, q, I) ==
    IF Len(q) # s.index.d THEN SearchOutcome(s, "DimensionMismatch", <<>>)
    ELSE SearchOutcome(s, "none", FaissDatabase_results(s, q, I, 1))

\* search that takes the store's dimension from the query it is given.
search_setting_dimension(s, q, I) ==
    LET s1 == [s EXCEPT !.dimension = Len(q)]
    IN  IF ntotal(s.index) = 0 THEN SearchOutcome(s1, "none", <<>>)
        ELSE IF Len(q) # s.index.d THEN SearchOutcome(s1, "DimensionMismatch", <<>>)
        ELSE SearchOutcome(s1, "none", FaissDatabase_results(s, q, I, 1))

\* FaissDatabase.search, I being what index.search returned.  A score is a
\* fraction <<numerator, denominator>>; here the raw distance.
FaissDatabase_search(s, q, I) ==
    IF ntotal(s.index) = 0 THEN SearchOutcome(s, "none", <<>>)
    ELSE IF Len(q) # s.index.d THEN SearchOutcome(s, "DimensionMismatch", <<>>)
    ELSE SearchOutcome(s, "none", FaissDatabase_results(s, q, I, 1))

RECURSIVE FaissVectorStore_results(_, _, _, _)
FaissVectorStore_results(s, q, I, i) ==
    IF i > Len(I) THEN <<>>
    ELSE LET idx == I[i]
             meta == IF idx \in DOMAIN s.metadata_store
                     THEN s.metadata_store[idx] ELSE EmptyDict
         IN  (IF idx = -1 THEN <<>>
              ELSE <<[id |-> IF "id" \in DOMAIN meta THEN meta["id"]
                             ELSE <<"str", idx>>,
                      score |-> <<1, 1 + L2(s.index.xb[idx + 1], q)>>,
                      metadata |-> meta]>>)
             \o FaissVectorStore_results(s, q, I, i + 1)

\* FaissVectorStore.search_vectors; the score is 1 / (1 + distance).
FaissVectorStore_search_vectors(s, q, I) ==
    IF s.index.d = 0 THEN SearchOutcome(s, "none", <<>>)
    ELSE IF Len(q) # s.index.d THEN SearchOutcome(s, "DimensionMismatch", <<>>)
    ELSE SearchOutcome(s, "none", FaissVectorStore_results(s, q, I, 1))

collection_name == "default_collection"
get_collection_info(s) ==
    [name |-> collection_name, total_vectors |-> ntotal(s.index),
     dimension |-> s.dimension, provider |-> "faiss"]


\* ======================================================== ChromaDatabase
\* The collection maps an id to its record.  collection.add refuses lists of
\* unequal length and ids repeated within the call, and leaves alone every id
\* the collection already holds.
NewChroma == [cls |-> "ChromaDatabase", collection |-> EmptyDict]
\* f"doc_{i}_{hash(doc)}": within one process equal documents hash equally.
ChromaId(i, doc) == <<"doc_", i, doc>>
ChromaDatabase_add(s, embeddings, documents, metadata, ids) ==
    LET the_ids == IF ids = None \/ ids = <<>>
                   THEN [i \in 1..Len(documents) |-> ChromaId(i - 1, documents[i])]
                   ELSE ids
        fresh == {i \in 1..Len(the_ids) : the_ids[i] \notin DOMAIN s.collection}
    IN  IF \/ embeddings = <<>>
           \/ Len(embeddings) # Len(the_ids)
           \/ Len(documents) # Len(the_ids)
           \/ Len(metadata) # Len(the_ids)
        THEN Outcome(s, "ValueError", FALSE)
        ELSE IF \E i, j \in 1..Len(the_ids) : i # j /\ the_ids[i] = the_ids[j]
        THEN Outcome(s, "DuplicateIDError", FALSE)
        ELSE Outcome(
                 [s EXCEPT !.collection =
                     [id \in DOMAIN s.collection \cup {the_ids[i] : i \in fresh} |->
                         IF id \in DOMAIN s.collection THEN s.collection[id]
                         ELSE LET i == CHOOSE i \in fresh : the_ids[i] = id
                              IN  [document |-> documents[i], metadata |-> metadata[i],
                                   embedding |-> embeddings[i]]]],
                 "none", FALSE)

\* vector_store.add and the number of records, whichever the provider.
VectorStore_add(s, embeddings, documents, metadata, ids) ==
    IF s.cls = "ChromaDatabase"
    THEN ChromaDatabase_add(s, embeddings, documents, metadata, ids)
    ELSE FaissDatabase_add(s, embeddings, documents, metadata, ids)
StoreCount(s) ==
    IF s.cls = "ChromaDatabase" THEN Cardinality(DOMAIN s.collection)
    ELSE ntotal(s.index)
\* The width of the embedder's vectors: the width the store was made for.
EmbedDim(s) == IF s.cls = "ChromaDatabase" THEN 1 ELSE s.dimension

\* ================================ ChromaVectorStore and PineconeVectorStore
\* The stores TextPipeline is built with: the collection (Chroma) or the index
\* (Pinecone) maps an id to its record.
LegacyClasses == {"ChromaVectorStore", "PineconeVectorStore"}
NewLegacy(cls) == [cls |-> cls, collection |-> EmptyDict]
\* f"id_{i}"
LegacyId(i) == <<"id_", i>>
\* ids = [f"id_{i}" for i in range(len(vectors))]
insert_ids(s, vectors) == [i \in 1..Len(vectors) |-> LegacyId(i - 1)]
\* ChromaVectorStore.insert_vectors: collection.add with those ids, the
\* metadata, and each metadata's "text" as the document.
ChromaVectorStore_insert_vectors(s, vectors, metadata) ==
    ChromaDatabase_add(s, vectors, [i \in 1..Len(metadata) |-> metadata[i].text],
                       metadata, insert_ids(s, vectors))
\* index.upsert(vectors=items): every item is written under its id, over what
\* the index held under it.
index_upsert(s, ids, vectors, metadata) ==
    [s EXCEPT !.collection =
        [id \in DOMAIN s.collection \cup {ids[i] : i \in 1..Len(ids)} |->
            IF id \in {ids[i] : i \in 1..Len(ids)}
            THEN LET i == CHOOSE i \in 1..Len(ids) :
                              ids[i] = id /\ \A j \in 1..Len(ids) : ids[j] = id => j <= i
                 IN  [document |-> metadata[i].text, metadata |-> metadata[i],
                      embedding |-> vectors[i]]
            ELSE s.collection[id]]]
\* PineconeVectorStore.insert_vectors: metadata[i] for every vector.
PineconeVectorStore_insert_vectors(s, vectors, metadata) ==
    IF Len(metadata) < Len(vectors) THEN Outcome(s, "IndexError", FALSE)
    ELSE Outcome(index_upsert(s, insert_ids(s, vectors), vectors, metadata), "none", FALSE)
insert_vectors(s, vectors, metadata) ==
    IF s.cls = "ChromaVectorStore"
    THEN ChromaVectorStore_insert_vectors(s, vectors, metadata)
    ELSE PineconeVectorStore_insert_vectors(s, vectors, metadata)
LegacyCount(s) == Cardinality(DOMAIN s.collection)

\* ================================================================== strings
\* A string the code takes apart is the sequence of its characters.
Space == " "
IsSpace(c) == c \in {" ", "\t"}

\* str.split(sep) for a one-character sep: always at least one part.
RECURSIVE split_from(_, _, _)
split_from(s, sep, part) ==
    IF s = <<>> THEN <<part>>
    ELSE IF Head(s) = sep THEN <<part>> \o split_from(Tail(s), sep, <<>>)
    ELSE split_from(Tail(s), sep, Append(part, Head(s)))
split(s, sep) == split_from(s, sep, <<>>)

\* str.strip()
RECURSIVE lstrip(_)
lstrip(s) == IF s # <<>> /\ IsSpace(Head(s)) THEN lstrip(Tail(s)) ELSE s
RECURSIVE rstrip(_)
rstrip(s) ==
    IF s # <<>> /\ IsSpace(s[Len(s)]) THEN rstrip(SubSeq(s, 1, Len(s) - 1)) ELSE s
strip(s) == rstrip(lstrip(s))

\* str.lower() and "kw in s"
UpperCase == <<"A", "B", "C", "D", "E", "F", "G", "H", "I", "J", "K", "L", "M",
               "N", "O", "P", "Q", "R", "S", "T", "U", "V", "W", "X", "Y", "Z">>
LowerCase == <<"a", "b", "c", "d", "e", "f", "g", "h", "i", "j", "k", "l", "m",
               "n", "o", "p", "q", "r", "s", "t", "u", "v", "w", "x", "y", "z">>
lower_char(c) ==
    IF \E i \in 1..Len(UpperCase) : UpperCase[i] = c
    THEN LowerCase[CHOOSE i \in 1..Len(UpperCase) : UpperCase[i] = c]
    ELSE c
lower(s) == [i \in 1..Len(s) |-> lower_char(s[i])]
Contains(s, kw) ==
    \E i \in 0..(Len(s) - Len(kw)) : SubSeq(s, i + 1, i + Len(kw)) = kw

\* ============================================================ the graph
\* nx.DiGraph: a set of nodes and at most one edge per ordered pair of nodes,
\* the edge carrying its attributes (here: relation).
DiGraph == [nodes |-> {}, edges |-> <<>>]
add_edge(g, u, v, relation) ==
    [nodes |-> g.nodes \cup {u, v},
     edges |-> [e \in DOMAIN g.edges \cup {<<u, v>>} |->
                   IF e = <<u, v>> THEN relation ELSE g.edges[e]]]
\* list(graph.edges(data=True)) as (u, relation, v)
LabelledEdges(g) == {<<e[1], g.edges[e], e[2]>> : e \in DOMAIN g.edges}

\* ============================================= the generation provider
\* self.llm is None, or a provider: the providers of the repository declare
\* generate_response(system_prompt, user_query, retrieved_context) with no
\* default (requires_context); a stand-in such as the tests' MagicMock takes
\* any arguments.
Providers == {[requires_context |-> TRUE], [requires_context |-> FALSE]}
Raises(err) == [raised |-> TRUE, err |-> err, response |-> None]
Returns(response) == [raised |-> FALSE, err |-> "none", response |-> response]
\* What a call of llm.generate_response can do: a call that leaves out a
\* required argument raises TypeError; any other call raises the provider's
\* error or returns one of the responses.
generate_response(llm, with_context, responses) ==
    IF llm.requires_context /\ ~with_context
    THEN {Raises("TypeError")}
    ELSE {Raises("ProviderError")} \cup {Returns(r) : r \in responses}

\* ======================================================== cleaned texts
\* What clean_text returns has single spaces, no newline and no space at either
\* end.  Such a text of n four-letter words is [n, style, len]: style says
\* whether it is all upper-case ("upper"), starts with '#' ("hash") or neither
\* ("plain"), and len is its length; a shorter len is a prefix of it.
SampleChars == 2000    \* cleaned[:2000]
SummaryChars == 300    \* content_sample[:300]
MaxChapters == 5       \* headings[:5]
Chars(n) == IF n = 0 THEN 0 ELSE 5 * n - 1
StyleOf(content) == IF Len(content) > 1 THEN content[2] ELSE "plain"
clean_text(content) ==
    [n |-> content[1], style |-> StyleOf(content), len |-> Chars(content[1])]
Prefix(text, k) == [text EXCEPT !.len = Min(@, k)]
\* text.strip(): a prefix cut after a word's space loses that space.
strip_text(text) ==
    IF text.len > 0 /\ text.len < Chars(text.n) /\ text.len % 5 = 0
    THEN [text EXCEPT !.len = @ - 1] ELSE text
\* [l.strip() for l in text.split('\n') if l.strip()]: the text has no newline.
lines_of(text) == IF strip_text(text).len = 0 THEN <<>> ELSE <<strip_text(text)>>
startswith_hash(text) == text.len > 0 /\ text.style = "hash"
isupper(text) == text.len > 0 /\ text.style = "upper"
\* A string written out in the code.
Literal(str) == [literal |-> str]

\* ================================================ _extract_structure_and_graph
DefaultChapters == <<Literal("Section 1"), Literal("Section 2")>>
page_index_entry(content_sample) ==
    LET lines == lines_of(content_sample)
        IsHeading(l) == startswith_hash(l) \/ isupper(l)
        headings == SelectSeq(lines, IsHeading)
    IN  [chapters |-> IF headings # <<>> THEN Head2(headings, MaxChapters)
                      ELSE DefaultChapters,
         summary |-> Prefix(content_sample, SummaryChars),
         total_chars |-> content_sample.len]
DictSet(d, key, value) ==
    [k \in DOMAIN d \cup {key} |-> IF k = key THEN value ELSE d[k]]

\* The (u, relation, v) of the add_edge calls made for the lines of a response.
RECURSIVE triples_of(_)
triples_of(lines) ==
    IF lines = <<>> THEN <<>>
    ELSE LET parts == split(strip(Head(lines)), "|")
         IN  (IF Len(parts) = 3
              THEN <<<<strip(parts[1]), strip(parts[2]), strip(parts[3])>>>>
              ELSE <<>>) \o triples_of(Tail(lines))
RECURSIVE add_edges(_, _)
add_edges(g, triples) ==
    IF triples = <<>> THEN g
    ELSE add_edges(add_edge(g, Head(triples)[1], Head(triples)[3], Head(triples)[2]),
                   Tail(triples))
Range(s) == {s[i] : i \in DOMAIN s}

\* self is [page_index, graph, llm]; out is what the provider does if called.
\* The result: the two structures, whether the call raised to ingest, whether
\* an exception was caught, and the triples given to add_edge.
Extracted(page_index, graph, raised, caught, triples) ==
    [page_index |-> page_index, graph |-> graph, raised |-> raised,
     caught |-> caught, triples |-> triples]

\* The provider was not called.
NotCalled == Raises("not called")
\* A variant that lets the provider's failure out of the method.
extract_propagating(self, source, content_sample, out) ==
    LET pi == DictSet(self.page_index, source, page_index_entry(content_sample))
    IN  IF self.llm = None THEN Extracted(pi, self.graph, FALSE, FALSE, <<>>)
        ELSE IF out.raised \/ out.response = None
        THEN Extracted(pi, self.graph, TRUE, FALSE, <<>>)
        ELSE LET triples == triples_of(split(out.response, "\n"))
             IN  Extracted(pi, add_edges(self.graph, triples), FALSE, FALSE, triples)
\* A variant that writes the structural entry after the provider has answered.
extract_index_last(self, source, content_sample, out) ==
    LET pi == DictSet(self.page_index, source, page_index_entry(content_sample))
    IN  IF self.llm = None THEN Extracted(pi, self.graph, FALSE, FALSE, <<>>)
        ELSE IF out.raised \/ out.response = None
        THEN Extracted(self.page_index, self.graph, FALSE, TRUE, <<>>)
        ELSE LET triples == triples_of(split(out.response, "\n"))
             IN  Extracted(pi, add_edges(self.graph, triples), FALSE, FALSE, triples)

\* try: write page_index[source]; if llm: ask it for triples and add an edge
\* for each line of three parts; except Exception: log a warning.  A response
\* that is not a string (None) makes response.split raise inside the try.
extract_structure_and_graph(self, source, content_sample, out) ==
    LET pi == DictSet(self.page_index, source, page_index_entry(content_sample))
    IN  IF self.llm = None THEN Extracted(pi, self.graph, FALSE, FALSE, <<>>)
        ELSE IF out.raised \/ out.response = None
        THEN Extracted(pi, self.graph, FALSE, TRUE, <<>>)
        ELSE LET triples == triples_of(split(out.response, "\n"))
             IN  Extracted(pi, add_edges(self.graph, triples), FALSE, FALSE, triples)

\* The responses the provider may give to the extraction prompt.
ExtractionResponses ==
    { None,
      <<"A", "|", "r", "|", "B">>,
      <<"A", "|", "s", "|", "B">>,
      <<"A", "|", "|", "B">>,
      <<"|", "|">>,
      <<"A", "|", "r", "|", "B", "|", "C">>,
      <<" ", "B", " ", "|", " ", "r", "|", "A", " ", "\n", "n", "o">> }
LlmOutcomes(llm, with_context, responses) ==
    IF llm = None THEN {NotCalled} ELSE generate_response(llm, with_context, responses)

\* ============================================================== the router
\* The keywords of _route_query.
KwSummarize == <<"s", "u", "m", "m", "a", "r", "i", "z", "e">>
KwOverallTone == <<"o", "v", "e", "r", "a", "l", "l", " ", "t", "o", "n", "e">>
KwChapter == <<"c", "h", "a", "p", "t", "e", "r">>
KwConnected == <<"c", "o", "n", "n", "e", "c", "t", "e", "d">>
KwRelationship == <<"r", "e", "l", "a", "t", "i", "o", "n", "s", "h", "i", "p">>
KwHowIs == <<"h", "o", "w", " ", "i", "s">>
\* A variant that looks for the graph keywords first.
route_graph_first(query) ==
    LET q == lower(query)
    IN  IF Contains(q, KwConnected) \/ Contains(q, KwRelationship) \/ Contains(q, KwHowIs)
        THEN "ENGINE_3"
        ELSE IF Contains(q, KwSummarize) \/ Contains(q, KwOverallTone)
                \/ Contains(q, KwChapter)
        THEN "ENGINE_2"
        ELSE "ENGINE_1"
route_query(query) ==
    LET q == lower(query)
    IN  IF Contains(q, KwSummarize) \/ Contains(q, KwOverallTone) \/ Contains(q, KwChapter)
        THEN "ENGINE_2"
        ELSE IF Contains(q, KwConnected) \/ Contains(q, KwRelationship)
                \/ Contains(q, KwHowIs)
        THEN "ENGINE_3"
        ELSE "ENGINE_1"
NotConfigured == Literal("LLM not configured.")
GraphEmpty == Literal("Knowledge graph is currently empty. Run ingestion first.")
NothingFound ==
    Literal("No relevant information found in the knowledge base. Please run ingest() first.")
QueryTopK == 3    \* self.search(user_query, top_k=3)
\* What an executor does: it returns a value or raises.
Return(value) == [raised |-> FALSE, err |-> "none", value |-> value]
Raise(err) == [raised |-> TRUE, err |-> err, value |-> None]
\* The documents of the results joined; banner: under the "[Retrieved Context"
\* heading.
Context(results, banner) ==
    [context |-> [i \in 1..Len(results) |-> results[i].document], banner |-> banner]
Generated(response) == [generated |-> response]

\* embedder.embed_text(query)
embed_text(query, d) == [i \in 1..d |-> Len(query) % 2]
\* VDBpipe.search: [] if the embedding or the store's search raises.
pipeline_search(s, query, embed_ok, I) ==
    IF ~embed_ok THEN <<>>
    ELSE LET r == FaissDatabase_search(s, embed_text(query, EmbedDim(s)), I)
         IN  IF r.err # "none" THEN <<>> ELSE r.results

\* A variant of query_with_llm that looks at the provider before the results.
query_with_llm_provider_first(self, results, out) ==
    IF self.llm = None THEN Return(Context(results, TRUE))
    ELSE IF results = <<>> THEN Return(NothingFound)
    ELSE IF out.raised THEN Return(Context(results, FALSE))
    ELSE Return(Generated(out.response))
\* self is [page_index, graph, llm]; out is what the provider does if called.
query_with_llm(self, results, out) ==
    IF results = <<>> THEN Return(NothingFound)
    ELSE IF self.llm = None THEN Return(Context(results, TRUE))
    ELSE IF out.raised THEN Return(Context(results, FALSE))
    ELSE Return(Generated(out.response))
engine_1_vector_rag(self, results, out) == query_with_llm(self, results, out)
engine_2_vectorless_rag(self, results, out) ==
    IF self.llm = None THEN Return(NotConfigured)
    ELSE IF out.raised THEN Raise(out.err)
    ELSE Return(Generated(out.response))
engine_3_graph_rag(self, results, out) ==
    IF self.llm = None THEN Return(NotConfigured)
    ELSE IF DOMAIN self.graph.edges = {} THEN Return(GraphEmpty)
    ELSE IF out.raised THEN Raise(out.err)
    ELSE Return(Generated(out.response))

\* ------------------------------------------------------ _engine_4_extract
Backslash == "\\"
Digits == {"0", "1", "2", "3", "4", "5", "6", "7", "8", "9"}
\* re.search(r'\\{.*\\}', response, re.DOTALL): in a raw string the pattern is a
\* backslash, '{', any characters, a backslash, '}'.  The match starts at the
\* leftmost such opening and runs to the last such closing; None if there is none.
re_opens(response) ==
    {i \in 1..(Len(response) - 1) : response[i] = Backslash /\ response[i + 1] = "{"}
re_closes(response, i) ==
    {j \in (i + 2)..(Len(response) - 1) : response[j] = Backslash /\ response[j + 1] = "}"}
re_search(response) ==
    LET starts == {i \in re_opens(response) : re_closes(response, i) # {}}
    IN  IF starts = {} THEN None
        ELSE LET i == CHOOSE a \in starts : \A b \in starts : a <= b
                 j == CHOOSE a \in re_closes(response, i) :
                          \A b \in re_closes(response, i) : b <= a
             IN  SubSeq(response, i, j + 1)
\* json.loads on the texts given here: '{}' and '{"<letters>":<digit>}' are
\* objects; a text whose first character starts no JSON value is an error.
IsJsonObject(s) ==
    /\ Len(s) >= 2 /\ s[1] = "{" /\ s[Len(s)] = "}"
    /\ LET inner == SubSeq(s, 2, Len(s) - 1)
           n == Len(inner)
       IN  \/ n = 0
           \/ /\ n >= 5
              /\ inner[1] = "\"" /\ inner[n - 2] = "\"" /\ inner[n - 1] = ":"
              /\ inner[n] \in Digits
              /\ \A i \in 2..(n - 3) : inner[i] \in Range(LowerCase)
Parsed(s) == [object |-> SubSeq(s, 2, Len(s) - 1)]
json_loads(s) ==
    IF IsJsonObject(s) THEN Return(Parsed(s)) ELSE Raise("JSONDecodeError")
\* self is [page_index, graph, llm]; out is what the provider does if called.
engine_4_extract(self, out) ==
    IF self.llm = None THEN Return([error |-> NotConfigured])
    ELSE IF out.raised THEN Return([error |-> Literal(out.err)])
    ELSE LET match == re_search(out.response)
         IN  IF match # None
             THEN LET loaded == json_loads(match)
                  IN  IF loaded.raised THEN Return([error |-> Literal(loaded.err)])
                      ELSE Return(loaded.value)
             ELSE Return([raw_output |-> out.response])

\* A variant of the dispatch that runs the vector executor whatever the engine.
executor_always_vector(engine) == "_engine_1_vector_rag"
\* query's dispatch: the executor run for what the router answered.
executor_of(engine) ==
    IF engine = "ENGINE_1" THEN "_engine_1_vector_rag"
    ELSE IF engine = "ENGINE_2" THEN "_engine_2_vectorless_rag"
    ELSE IF engine = "ENGINE_3" THEN "_engine_3_graph_rag"
    ELSE "_engine_1_vector_rag"

\* The queries asked: one or two of these phrases, separated by a space.
Phrases ==
    { <<"S", "u", "m", "m", "a", "r", "i", "z", "e">>, <<"S", "U", "M", "M", "A", "R", "I", "Z", "E">>, <<"c", "h", "a", "p", "t", "e", "r", "s">>, <<"O", "v", "e", "r", "a", "l", "l", " ", "T", "o", "n", "e">>,
      <<"c", "o", "n", "n", "e", "c", "t", "e", "d">>, <<"C", "o", "n", "n", "e", "c", "t", "e", "d", "?">>, <<"R", "e", "l", "a", "t", "i", "o", "n", "s", "h", "i", "p">>, <<"H", "o", "w", " ", "i", "s">>,
      <<"r", "e", "v", "e", "n", "u", "e">>, <<"s", "u", "m", "m", "a", "r", "y">> }
UserQueries ==
    {<<>>} \cup Phrases \cup {a \o <<Space>> \o b : a, b \in Phrases}

\* ==================================================================== state
VARIABLES
    store,        \* the store object of the running process
    index_file,   \* <collection>.index / index_path on disk
    meta_file,    \* <collection>_meta.pkl / metadata_path on disk
    up,           \* a process holds a constructed store
    last          \* the last call: what it was given and what it answered

storeVars == <<store, index_file, meta_file, up, last>>

\* The state of a VDBpipe.ingest call.
VARIABLES
    documents,     \* what loader.load_data() returned
    batch_size,    \* ingest's batch_size argument
    pc,            \* "idle", "start", "loop", "done" (returned), "raised"
    di,            \* the position in documents of the next document
    chunk_batch, docs_batch, meta_batch,   \* the pending batch
    total_chunks,
    ret,           \* ingest's return value: None or <<total_chunks>>
    produced,      \* every chunk chunk_text returned so far, in order
    add_log,       \* the documents list of every vector_store.add call, in order
    produced_from, \* for each chunk of produced, the position of its document
    flushed,       \* every batch handed to _embed_and_store, in order
    failed_chunks, \* the chunks of the batches whose embedding raised
    llm,           \* self.llm
    page_index,    \* self.page_index: source -> structural entry
    graph,         \* self.graph
    accepted,      \* every (u, relation, v) given to graph.add_edge so far
    responses,     \* every response the provider returned to the extraction
    caught,        \* <<run, position>> of the documents whose extraction caught an exception
    runs,          \* the ingest calls made so far
    run_starts,    \* the number of records in the vector store when each began
    answer,        \* the last query: what was asked and what came back
    chunker,       \* a chunk_text call: its arguments, start, chunks and position
    tasks          \* the two futures of the document ingest is at, and who wrote what

pipeVars == <<llm, page_index, graph>>
extractLog == <<accepted, responses, caught>>
runVars == <<runs, run_starts>>
sideVars == <<chunker, tasks>>
\* No chunk_text call is followed step by step; no future is outstanding.
NoChunker == [pc |-> "idle"]
\* at: where the orchestrator is inside the "with ThreadPoolExecutor" block;
\* chunk, extraction: the state of the two futures of document doc; chunks: the
\* chunk future's result; writes: which thread wrote which shared structure,
\* and whether the document's join was behind it; joins: the state of the two
\* futures each time the orchestrator left the block.
NoTasks == [at |-> "none", doc |-> 0, chunk |-> "none", extraction |-> "none",
            chunks |-> <<>>, writes |-> {}, joins |-> <<>>]
ingestVars == <<documents, batch_size, pc, di, chunk_batch, docs_batch, meta_batch,
                total_chunks, ret, produced, add_log, failed_chunks,
                produced_from, flushed, pipeVars, extractLog, runVars, answer, sideVars>>
vars == <<storeVars, ingestVars>>

\* No ingest is running.
IngestIdle ==
    /\ documents = <<>> /\ batch_size = 1
    /\ pc = "idle" /\ di = 1
    /\ chunk_batch = <<>> /\ docs_batch = <<>> /\ meta_batch = <<>>
    /\ total_chunks = 0 /\ ret = None
    /\ produced = <<>> /\ add_log = <<>> /\ failed_chunks = 0
    /\ produced_from = <<>> /\ flushed = <<>>
    /\ llm = None /\ page_index = EmptyDict /\ graph = DiGraph
    /\ accepted = {} /\ responses = {} /\ caught = {}
    /\ runs = 0 /\ run_starts = <<>>
    /\ answer = None
    /\ chunker = NoChunker /\ tasks = NoTasks

\* x: the vectors given, by their number and width (<<>> when none are given).
\* recovering: a load made after the previous process died (not a plain reopen).
\* q, k: the query vector and top_k of a search.
Last(op, err, x, results) ==
    [op |-> op, err |-> err, x |-> x, results |-> results, recovering |-> FALSE,
     q |-> <<>>, k |-> 0]
Shape(x) == IF x = <<>> THEN <<0, 0>> ELSE <<Len(x), Len(x[1])>>

\* ------------------------------------------------------- the callers' inputs
Batches ==
    UNION {[1..n -> VectorsOfDim(d)] : n \in BatchLens, d \in Dims}
DocsFor(embeddings, nd) == [i \in 1..nd |-> Doc(embeddings[i])]
SourceMeta == [source |-> <<"src", "s">>]
MetaFor(nm) == [i \in 1..nm |-> SourceMeta]
IdsFor(s, ni) == [i \in 1..ni |-> UserId(ntotal(s.index) + i - 1)]
\* The metadata dicts the legacy pipeline builds: {"source", "text"}, and the
\* same with an "id" chosen by the caller.
LegacyMeta(s, vectors, nm, with_id) ==
    [i \in 1..nm |->
        IF with_id
        THEN [source |-> <<"src", "s">>, text |-> Doc(vectors[i]),
              id |-> UserId(ntotal(s.index) + i - 1)]
        ELSE [source |-> <<"src", "s">>, text |-> Doc(vectors[i])]]

\* ------------------------------------------------------------------ actions
\* The end of an add that reached its save: the save runs to its end, or the
\* process dies at crash point cp and leaves what it had written.
Persist(r, op, x, cp) ==
    /\ index_file' = IF r.saved THEN save_index_file(r.s, index_file, cp) ELSE index_file
    /\ meta_file' = IF r.saved THEN save_meta_file(r.s, meta_file, cp) ELSE meta_file
    /\ IF cp = "done"
       THEN /\ store' = r.s
            /\ up' = TRUE
            /\ last' = Last(op, r.err, x, <<>>)
       ELSE /\ r.saved
            /\ store' = NewStore(store.cls, store.dimension)
            /\ up' = FALSE
            /\ last' = Last("crash", "none", x, <<>>)
    /\ UNCHANGED ingestVars

Add(cps, cap) ==
    \E embeddings \in Batches, cp \in cps :
      \E nd \in 0..Len(embeddings), nm, ni \in {0, Len(embeddings)} :
        /\ up /\ store.cls = "FaissDatabase"
        /\ ntotal(store.index) + Len(embeddings) <= cap
        /\ Persist(FaissDatabase_add(store, embeddings, DocsFor(embeddings, nd),
                                     MetaFor(nm), IdsFor(store, ni)),
                   "add", Shape(embeddings), cp)

InsertVectors(cps, cap) ==
    \E vectors \in Batches, cp \in cps, with_id \in BOOLEAN :
      \E nm \in 0..Len(vectors) :
        /\ up /\ store.cls = "FaissVectorStore"
        /\ ntotal(store.index) + Len(vectors) <= cap
        /\ Persist(FaissVectorStore_insert_vectors(
                       store, vectors, LegacyMeta(store, vectors, nm, with_id)),
                   "add", Shape(vectors), cp)

\* A process opens the collection: the constructor of either class.
Restart ==
    LET r == load_or_initialize(store.cls, store.dimension, index_file, meta_file)
    IN  /\ store' = r.s
        /\ up' = (r.err = "none")
        /\ last' = [Last("load", r.err, <<>>, <<>>) EXCEPT !.recovering = ~up]
        /\ UNCHANGED <<index_file, meta_file, ingestVars>>

InitStore ==
    /\ IngestIdle
    /\ \E cls \in Classes, d \in Dims : store = NewStore(cls, d)
    /\ index_file = AbsentFile
    /\ meta_file = AbsentFile
    /\ up = TRUE
    /\ last = Last("init", "none", <<>>, <<>>)

\* What index.search hands the search of store s for query q, when the search
\* gets as far as calling it; <<>> when it does not.
FaissCall(s, q, k) ==
    IF ntotal(s.index) = 0 \/ Len(q) # s.index.d THEN {<<>>}
    ELSE index_search(s.index, q, k)

Queries == UNION {VectorsOfDim(d) : d \in Dims}
TopKs == {1, 2}

Searched(r, q, k) ==
    /\ store' = r.s
    /\ last' = [Last("search", r.err, <<1, Len(q)>>, r.results)
                    EXCEPT !.q = q, !.k = k]
    /\ UNCHANGED <<index_file, meta_file, up, ingestVars>>

Search ==
    \E q \in Queries, k \in TopKs :
      \E I \in FaissCall(store, q, k) :
        /\ up /\ store.cls = "FaissDatabase"
        /\ Searched(FaissDatabase_search(store, q, I), q, k)

SearchVectors ==
    \E q \in Queries, k \in TopKs :
      \E I \in FaissCall(store, q, k) :
        /\ up /\ store.cls = "FaissVectorStore"
        /\ Searched(FaissVectorStore_search_vectors(store, q, I), q, k)

\* Adds, crashes during their saves, and restarts.
NextStore ==
    \/ Add(CrashPoints \cup {"done"}, MaxVectors)
    \/ InsertVectors(CrashPoints \cup {"done"}, MaxVectors)
    \/ Restart
SpecStore == InitStore /\ [][NextStore]_vars

\* Adds and searches of one running process.
NextSearch ==
    \/ Add({"done"}, MaxSearched)
    \/ InsertVectors({"done"}, MaxSearched)
    \/ Search
    \/ SearchVectors
SpecSearch == InitStore /\ [][NextSearch]_vars


\* =========================================================== the store claims
\* The vector at index position p (0-based) and the record kept for it.
RecordAt(s, p) ==
    IF s.cls = "FaissDatabase" THEN s.metadata_store[p + 1] ELSE s.metadata_store[p]
RecordKeys(s) ==
    IF s.cls = "FaissDatabase"
    THEN {i - 1 : i \in DOMAIN s.metadata_store}
    ELSE DOMAIN s.metadata_store
RecordText(s, p) ==
    IF s.cls = "FaissDatabase" THEN RecordAt(s, p).document
    ELSE IF "text" \in DOMAIN RecordAt(s, p) THEN RecordAt(s, p)["text"] ELSE None

\* C1: after any sequence of add / insert_vectors calls (also calls that fail
\* part-way, or get fewer documents or metadata than embeddings, or no
\* metadata), the index holds as many vectors as there are metadata records,
\* and the record at position i is the one supplied with the vector at i.
C1_IndexAlignedWithMetadata ==
    up => /\ ntotal(store.index) = MetaCount(store)
          /\ RecordKeys(store) = {i - 1 : i \in 1..ntotal(store.index)}
          /\ \A p \in RecordKeys(store) :
                 p < ntotal(store.index)
                     => RecordText(store, p) = Doc(store.index.xb[p + 1])

\* C2: whatever point of the save of an add the process dies at, the next
\* load of the two files succeeds and gives a store with as many vectors as
\* metadata records.
C2_LoadableAfterCrash ==
    (last.op = "load" /\ last.recovering)
        => /\ last.err = "none"
           /\ up
           /\ ntotal(store.index) = MetaCount(store)

\* C3: a load of files whose index holds another number of vectors than the
\* metadata file holds records fails (a corruption error) and leaves no
\* usable store.
FilesDisagree ==
    /\ index_file.state = "ok" /\ meta_file.state = "ok"
    /\ ntotal(index_file.data) # Cardinality(DOMAIN meta_file.data)
C3_MismatchedLoadFails ==
    (last.op = "load" /\ FilesDisagree) => (last.err # "none" /\ ~up)

HeldIds(s, p) ==
    {id \in {UserId(p), <<"id_", p>>} :
        \E key \in RecordKeys(s) :
            IF s.cls = "FaissDatabase" THEN RecordAt(s, key).id = id
            ELSE "id" \in DOMAIN RecordAt(s, key) /\ RecordAt(s, key)["id"] = id}
\* Score a is at least as good as score b: the lower distance (FaissDatabase),
\* the higher 1 / (1 + distance) (FaissVectorStore).
AsGood(cls, a, b) ==
    IF cls = "FaissDatabase" THEN a[1] * b[2] <= b[1] * a[2]
    ELSE a[1] * b[2] >= b[1] * a[2]
Copies(s, q) == Cardinality({p \in 1..ntotal(s.index) : s.index.xb[p] = q})

\* C5: a search with a stored vector as the query returns that vector's own id
\* among the first min(N, k) results, with the best score of all results.
\* Stated for the queries of which the store holds at most k copies, where no
\* choice between equal vectors can cut the vector off.
C5_RoundTrip ==
    (up /\ last.op = "search")
        => \A p \in 0..(ntotal(store.index) - 1) :
             (store.index.xb[p + 1] = last.q /\ Copies(store, last.q) <= last.k)
                 => \A id \in HeldIds(store, p) :
                      \E j \in 1..Min(ntotal(store.index), last.k) :
                          /\ j <= Len(last.results)
                          /\ last.results[j].id = id
                          /\ \A i \in 1..Len(last.results) :
                                 AsGood(store.cls, last.results[j].score,
                                        last.results[i].score)

\* C6: a search of a store that holds no vector returns the empty list and
\* raises nothing, whatever the query vector and top_k.
C6_EmptyStoreSearch ==
    (up /\ last.op = "search" /\ ntotal(store.index) = 0)
        => (last.err = "none" /\ last.results = <<>>)
\* A new FaissDatabase was searched with a query of another width than its own.
C6_Witness ==
    /\ up /\ last.op = "search" /\ store.cls = "FaissDatabase"
    /\ ntotal(store.index) = 0 /\ Len(last.q) # store.index.d
    /\ last.results = <<>>

\* C7: a search changes nothing that is stored: get_collection_info answers
\* the same before and after it, and the index, the metadata records and the
\* files are the same.
C7_SearchMutatesNothing ==
    [][(up /\ last'.op = "search")
          => /\ get_collection_info(store') = get_collection_info(store)
             /\ store'.index = store.index
             /\ store'.metadata_store = store.metadata_store
             /\ index_file' = index_file
             /\ meta_file' = meta_file
      ]_storeVars
\* A FaissDatabase of two vectors was searched and returned both.
C7_Witness ==
    /\ up /\ last.op = "search" /\ store.cls = "FaissDatabase"
    /\ get_collection_info(store).total_vectors = 2
    /\ Len(last.results) = 2


\* ============================================================== VDBpipe.ingest
\* A document is [source, content]; its content is None (nothing to ingest) or
\* <<n>>, a text whose cleaned form has n whitespace-separated tokens, or
\* <<n, style>>, such a text in upper case or starting with '#'.  A chunk is
\* <<n, start, end>>: tokens[start:end] of such a text, joined.
MaxDocs == 3          \* the longest list of documents the loader returns
ChunkSize == 512      \* ingest: chunk_text(cleaned, 512)
DefaultOverlap == 50  \* chunk_text(text, chunk_size=512, overlap=50)
Sources == {"doc1", "doc2"}
Contents == {None, <<0>>, <<1>>, <<463>>}
BatchSizes == {1, 2, 3}
Documents == UNION {[1..n -> [source : Sources, content : Contents]] : n \in 0..MaxDocs}

\* chunk_text: while start < len(tokens): append tokens[start:start+chunk_size];
\* start += chunk_size - overlap.
\* Variants of the loop's last line: start += chunk_size; start += overlap.
advance_by_size(start, chunk_size, overlap) == start + chunk_size
advance_by_overlap(start, chunk_size, overlap) == start + overlap
\* start += chunk_size - overlap
next_start(start, chunk_size, overlap) == start + chunk_size - overlap
\* tokens[start:end]
tokens_slice(n, start, end) == <<n, start, Min(end, n)>>
RECURSIVE chunk_loop(_, _, _, _)
chunk_loop(n, chunk_size, overlap, start) ==
    IF start < n
    THEN <<tokens_slice(n, start, start + chunk_size)>>
             \o chunk_loop(n, chunk_size, overlap, next_start(start, chunk_size, overlap))
    ELSE <<>>
chunk_text(n, chunk_size, overlap) == chunk_loop(n, chunk_size, overlap, 0)

\* ------------------------------------------- chunk_text, one iteration at a time
MaxTokens == 6        \* the longest text chunked with small sizes
MaxChunkSize == 4     \* the largest small chunk_size
ChunkCap == MaxTokens + 2   \* chunks after which a loop is followed no further
\* The calls followed: short texts with every chunk_size and every overlap up
\* to chunk_size, and the calls ingest and TextPipeline.process make.
ChunkCalls ==
    {[pc |-> "loop", n |-> n, chunk_size |-> size, overlap |-> overlap,
      start |-> 0, chunks |-> <<>>] :
        n \in 0..MaxTokens, size \in 1..MaxChunkSize, overlap \in 0..MaxChunkSize}
    \cup
    {[pc |-> "loop", n |-> n, chunk_size |-> ChunkSize, overlap |-> DefaultOverlap,
      start |-> 0, chunks |-> <<>>] : n \in {1, 463, 1387}}
\* while start < len(tokens): chunks.append(" ".join(tokens[start:end])); start += ...
ChunkStep ==
    /\ chunker.pc = "loop" /\ chunker.start < chunker.n
    /\ Len(chunker.chunks) < ChunkCap
    /\ chunker' = [chunker EXCEPT
           !.chunks = Append(@, tokens_slice(chunker.n, chunker.start,
                                             chunker.start + chunker.chunk_size)),
           !.start = next_start(@, chunker.chunk_size, chunker.overlap)]
    /\ UNCHANGED <<storeVars, documents, batch_size, pc, di, chunk_batch, docs_batch,
                   meta_batch, total_chunks, ret, produced, add_log, failed_chunks,
                   produced_from, flushed,
                   pipeVars, extractLog, runVars, answer, tasks>>
\* return chunks
ChunkReturn ==
    /\ chunker.pc = "loop" /\ ~(chunker.start < chunker.n)
    /\ chunker' = [chunker EXCEPT !.pc = "returned"]
    /\ UNCHANGED <<storeVars, documents, batch_size, pc, di, chunk_batch, docs_batch,
                   meta_batch, total_chunks, ret, produced, add_log, failed_chunks,
                   produced_from, flushed,
                   pipeVars, extractLog, runVars, answer, tasks>>
InitChunk ==
    /\ chunker \in ChunkCalls
    /\ tasks = NoTasks
    /\ documents = <<>> /\ batch_size = 1
    /\ pc = "idle" /\ di = 1
    /\ chunk_batch = <<>> /\ docs_batch = <<>> /\ meta_batch = <<>>
    /\ total_chunks = 0 /\ ret = None
    /\ produced = <<>> /\ add_log = <<>> /\ failed_chunks = 0
    /\ produced_from = <<>> /\ flushed = <<>>
    /\ llm = None /\ page_index = EmptyDict /\ graph = DiGraph
    /\ accepted = {} /\ responses = {} /\ caught = {}
    /\ runs = 0 /\ run_starts = <<>>
    /\ answer = None
    /\ store = NewStore("FaissDatabase", 1)
    /\ index_file = AbsentFile /\ meta_file = AbsentFile
    /\ up = TRUE
    /\ last = Last("init", "none", <<>>, <<>>)
NextChunk == ChunkStep \/ ChunkReturn
SpecChunk == InitChunk /\ [][NextChunk]_vars
\* The interpreter keeps running a loop it is in.
SpecChunkFair == SpecChunk /\ WF_vars(NextChunk)

\* The embedder's vector for a chunk, of the store's dimension.
Embed(chunk, d) == [i \in 1..d |-> IF chunk[2] = 0 THEN 0 ELSE 1]
embed_batch(chunks, d) == [i \in 1..Len(chunks) |-> Embed(chunks[i], d)]

\* _embed_and_store(chunks, docs, metadata), the embedder answering (ok) or
\* raising: any exception of embed_batch or add is caught and logged.
EmbedAndStore(chunks, docs, metadata, ok) ==
    /\ flushed' = Append(flushed, [chunks |-> chunks, docs |-> docs,
                                   metadata |-> metadata, added |-> ok])
    /\ IF ok
       THEN LET r == VectorStore_add(store, embed_batch(chunks, EmbedDim(store)),
                                     docs, metadata, None)
            IN  /\ store' = r.s
                /\ index_file' = IF r.saved THEN WrittenFile(r.s.index) ELSE index_file
                /\ meta_file' = IF r.saved THEN WrittenFile(r.s.metadata_store)
                                ELSE meta_file
                /\ add_log' = Append(add_log, docs)
                /\ UNCHANGED failed_chunks
       ELSE /\ failed_chunks' = failed_chunks + Len(chunks)
            /\ UNCHANGED <<store, index_file, meta_file, add_log>>

\* documents = loader.load_data(); if not documents: return
IngestStart ==
    /\ pc = "start"
    /\ IF documents = <<>>
       THEN pc' = "done" /\ ret' = None
       ELSE pc' = "loop" /\ ret' = ret
    /\ UNCHANGED <<documents, batch_size, di, chunk_batch, docs_batch, meta_batch,
                   total_chunks, produced, add_log, failed_chunks, storeVars,
                   produced_from, flushed,
                   pipeVars, extractLog, runVars, answer, sideVars>>

\* Variants: one metadata entry for a document however many its chunks; a
\* flush after every document.
source_metadata_once(source, chunks) == <<[source |-> source]>>
flush_every_document(batch, size) == TRUE
\* [{"source": source}] * len(chunks)
source_metadata(source, chunks) == [i \in 1..Len(chunks) |-> [source |-> source]]
\* if len(chunk_batch) >= batch_size
flush_due(batch, size) == Len(batch) >= size
\* The three batches extended by a document's chunks, and flushed if they have
\* reached batch_size.
Accumulate(source, chunks) ==
    LET cb == chunk_batch \o chunks
        db == docs_batch \o chunks
        mb == meta_batch \o source_metadata(source, chunks)
    IN  /\ produced' = produced \o chunks
        /\ produced_from' = produced_from \o [i \in 1..Len(chunks) |-> di]
        /\ IF flush_due(cb, batch_size)
           THEN /\ \E ok \in BOOLEAN : EmbedAndStore(cb, db, mb, ok)
                /\ total_chunks' = total_chunks + Len(cb)
                /\ chunk_batch' = <<>> /\ docs_batch' = <<>> /\ meta_batch' = <<>>
           ELSE /\ chunk_batch' = cb /\ docs_batch' = db /\ meta_batch' = mb
                /\ UNCHANGED <<total_chunks, add_log, failed_chunks, flushed,
                               store, index_file, meta_file>>

\* One pass of "for doc in documents": skip an empty document; else clean it,
\* chunk it and extract its structure (both awaited), extend the pending batch,
\* and flush it if it has reached batch_size.
IngestDoc(provider_responses) ==
    /\ pc = "loop" /\ di <= Len(documents)
    /\ LET doc == documents[di]
       IN  IF doc.content = None
           THEN /\ di' = di + 1
                /\ UNCHANGED <<pc, chunk_batch, docs_batch, meta_batch, total_chunks,
                               produced, add_log, failed_chunks,
                               produced_from, flushed,
                               store, index_file, meta_file,
                               page_index, graph, extractLog>>
           ELSE \E out \in LlmOutcomes(llm, FALSE, provider_responses) :
                  LET cleaned == clean_text(doc.content)
                      chunks == chunk_text(cleaned.n, ChunkSize, DefaultOverlap)
                      r == extract_structure_and_graph(
                               [page_index |-> page_index, graph |-> graph, llm |-> llm],
                               doc.source, Prefix(cleaned, SampleChars), out)
                  IN  /\ page_index' = r.page_index
                      /\ graph' = r.graph
                      /\ accepted' = accepted \cup Range(r.triples)
                      /\ responses' = IF llm = None \/ out.raised \/ out.response = None
                                      THEN responses ELSE responses \cup {out.response}
                      /\ caught' = IF r.caught \/ r.raised
                                   THEN caught \cup {<<runs, di>>} ELSE caught
                      /\ IF r.raised
                         THEN /\ pc' = "raised"
                              /\ UNCHANGED <<di, chunk_batch, docs_batch, meta_batch,
                                             total_chunks, produced, add_log,
                                             produced_from, flushed,
                                             failed_chunks, store, index_file, meta_file>>
                         ELSE /\ pc' = pc
                              /\ di' = di + 1
                              /\ Accumulate(doc.source, chunks)
    /\ UNCHANGED <<documents, batch_size, ret, up, last, llm, runVars, answer, sideVars>>

\* After the loop: flush what is pending, and return total_chunks.
IngestFinish ==
    /\ pc = "loop" /\ di > Len(documents)
    /\ IF chunk_batch # <<>>
       THEN /\ \E ok \in BOOLEAN : EmbedAndStore(chunk_batch, docs_batch, meta_batch, ok)
            /\ total_chunks' = total_chunks + Len(chunk_batch)
       ELSE UNCHANGED <<total_chunks, add_log, failed_chunks, flushed,
                        store, index_file, meta_file>>
    /\ ret' = <<total_chunks'>>
    /\ pc' = "done"
    /\ UNCHANGED <<documents, batch_size, di, chunk_batch, docs_batch, meta_batch,
                   produced, produced_from, up, last, pipeVars, extractLog, runVars,
                   answer, sideVars>>

\* The first lines of an ingest call on a pipeline that has not ingested yet.
IngestEntry ==
    /\ pc = "start" /\ di = 1
    /\ chunk_batch = <<>> /\ docs_batch = <<>> /\ meta_batch = <<>>
    /\ total_chunks = 0 /\ ret = None
    /\ produced = <<>> /\ add_log = <<>> /\ failed_chunks = 0
    /\ produced_from = <<>> /\ flushed = <<>>
    /\ page_index = EmptyDict /\ graph = DiGraph
    /\ accepted = {} /\ responses = {} /\ caught = {}
    /\ runs = 1 /\ run_starts = <<0>>
    /\ answer = None
    /\ chunker = NoChunker /\ tasks = NoTasks
    /\ index_file = AbsentFile /\ meta_file = AbsentFile
    /\ up = TRUE
    /\ last = Last("init", "none", <<>>, <<>>)

InitIngest ==
    /\ documents \in Documents
    /\ batch_size \in BatchSizes
    /\ store = NewStore("FaissDatabase", 1)
    /\ llm = None
    /\ IngestEntry

NextIngest == IngestStart \/ IngestDoc(ExtractionResponses) \/ IngestFinish
SpecIngest == InitIngest /\ [][NextIngest]_vars

\* ------------------------------------------------------ TextPipeline.process
\* process runs on the variables of an ingest call, at "p_start" and "p_loop";
\* it has no docs_batch, and its metadata carry the chunk as "text".
\* TextPipeline._embed_and_store: what encode or insert_vectors raises
\* propagates, and process re-raises it.
ProcessFlush(chunks, metadata, ok) ==
    LET r == insert_vectors(store, embed_batch(chunks, 1), metadata)
        added == ok /\ r.err = "none"
    IN  /\ flushed' = Append(flushed, [chunks |-> chunks, docs |-> chunks,
                                       metadata |-> metadata, added |-> added])
        /\ IF added
           THEN /\ store' = r.s
                /\ total_chunks' = total_chunks + Len(chunks)
                /\ add_log' = Append(add_log, chunks)
           ELSE UNCHANGED <<store, total_chunks, add_log>>
\* documents = self.loader.load_data(); if not documents: return
ProcessStart ==
    /\ pc = "p_start"
    /\ pc' = IF documents = <<>> THEN "done" ELSE "p_loop"
    /\ UNCHANGED <<documents, batch_size, di, chunk_batch, docs_batch, meta_batch,
                   total_chunks, ret, produced, add_log, failed_chunks, storeVars,
                   produced_from, flushed,
                   pipeVars, extractLog, runVars, answer, sideVars>>
\* One pass of "for doc in documents".
ProcessDoc ==
    /\ pc = "p_loop" /\ di <= Len(documents)
    /\ LET doc == documents[di]
       IN  IF doc.content = None
           THEN /\ di' = di + 1
                /\ UNCHANGED <<pc, chunk_batch, meta_batch, total_chunks, produced,
                               produced_from, add_log, flushed, store>>
           ELSE LET cleaned == clean_text(doc.content)
                    chunks == chunk_text(cleaned.n, ChunkSize, DefaultOverlap)
                    cb == chunk_batch \o chunks
                    mb == meta_batch \o [i \in 1..Len(chunks) |->
                                            [source |-> doc.source, text |-> chunks[i]]]
                IN  /\ produced' = produced \o chunks
                    /\ produced_from' = produced_from \o [i \in 1..Len(chunks) |-> di]
                    /\ IF flush_due(cb, batch_size)
                       THEN \E ok \in BOOLEAN :
                              /\ ProcessFlush(cb, mb, ok)
                              /\ IF flushed'[Len(flushed')].added
                                 THEN /\ chunk_batch' = <<>> /\ meta_batch' = <<>>
                                      /\ di' = di + 1 /\ pc' = pc
                                 ELSE /\ chunk_batch' = cb /\ meta_batch' = mb
                                      /\ di' = di /\ pc' = "raised"
                       ELSE /\ chunk_batch' = cb /\ meta_batch' = mb
                            /\ di' = di + 1
                            /\ UNCHANGED <<pc, total_chunks, add_log, flushed, store>>
    /\ UNCHANGED <<documents, batch_size, docs_batch, ret, failed_chunks,
                   index_file, meta_file, up, last,
                   pipeVars, extractLog, runVars, answer, sideVars>>
\* After the loop: flush what is pending; process returns nothing.
ProcessFinish ==
    /\ pc = "p_loop" /\ di > Len(documents)
    /\ IF chunk_batch # <<>>
       THEN \E ok \in BOOLEAN :
              /\ ProcessFlush(chunk_batch, meta_batch, ok)
              /\ pc' = IF flushed'[Len(flushed')].added THEN "done" ELSE "raised"
       ELSE /\ pc' = "done"
            /\ UNCHANGED <<total_chunks, add_log, flushed, store>>
    /\ UNCHANGED <<documents, batch_size, di, chunk_batch, docs_batch, meta_batch, ret,
                   produced, produced_from, failed_chunks,
                   index_file, meta_file, up, last,
                   pipeVars, extractLog, runVars, answer, sideVars>>
ProcessDocuments ==
    UNION {[1..n -> [source : Sources, content : Contents]] : n \in 0..MaxDocs}
InitProcess ==
    /\ documents \in ProcessDocuments
    /\ batch_size \in BatchSizes
    /\ store \in {NewLegacy(cls) : cls \in LegacyClasses}
    /\ llm = None
    /\ pc = "p_start" /\ di = 1
    /\ chunk_batch = <<>> /\ docs_batch = <<>> /\ meta_batch = <<>>
    /\ total_chunks = 0 /\ ret = None
    /\ produced = <<>> /\ add_log = <<>> /\ failed_chunks = 0
    /\ produced_from = <<>> /\ flushed = <<>>
    /\ page_index = EmptyDict /\ graph = DiGraph
    /\ accepted = {} /\ responses = {} /\ caught = {}
    /\ runs = 1 /\ run_starts = <<0>>
    /\ answer = None
    /\ chunker = NoChunker /\ tasks = NoTasks
    /\ index_file = AbsentFile /\ meta_file = AbsentFile
    /\ up = TRUE
    /\ last = Last("init", "none", <<>>, <<>>)
NextProcess == ProcessStart \/ ProcessDoc \/ ProcessFinish
SpecProcess == InitProcess /\ [][NextProcess]_vars

\* Either pipeline, batching what it was given.
InitBatching == InitIngest \/ InitProcess
NextBatching ==
    \/ IngestStart
    \/ IngestDoc(ExtractionResponses)
    \/ IngestFinish
    \/ ProcessStart
    \/ ProcessDoc
    \/ ProcessFinish
SpecBatching == InitBatching /\ [][NextBatching]_vars

\* ------------------------------------------------- a session of ingest calls
\* ingest called again on the same data path: the loader returns the same
\* documents; the batches and the count are the new call's own.
RunNumbers == {1, 2}
IngestAgain ==
    /\ pc = "done" /\ runs + 1 \in RunNumbers
    /\ pc' = "start" /\ di' = 1
    /\ chunk_batch' = <<>> /\ docs_batch' = <<>> /\ meta_batch' = <<>>
    /\ total_chunks' = 0 /\ ret' = None
    /\ produced' = <<>> /\ add_log' = <<>> /\ failed_chunks' = 0
    /\ produced_from' = <<>> /\ flushed' = <<>>
    /\ runs' = runs + 1
    /\ run_starts' = Append(run_starts, StoreCount(store))
    /\ UNCHANGED <<documents, batch_size, storeVars, pipeVars, extractLog, answer,
                   sideVars>>

\* The pipelines a configuration can build, and what they are given to ingest.
SessionLens == 0..2
SessionContents == {None, <<0>>, <<1>>, <<1, "upper">>, <<463, "hash">>}
SessionDocuments ==
    UNION {[1..n -> [source : Sources, content : SessionContents]] : n \in SessionLens}
SessionBatchSizes == {1, 3}
SessionResponses == {None, <<"A", "|", "r", "|", "B">>}
InitSession ==
    /\ documents \in SessionDocuments
    /\ batch_size \in SessionBatchSizes
    /\ store \in {NewStore("FaissDatabase", 1), NewChroma}
    /\ llm \in {None} \cup Providers
    /\ IngestEntry
NextSession ==
    \/ IngestStart
    \/ IngestDoc(SessionResponses)
    \/ IngestFinish
    \/ IngestAgain
SpecSession == InitSession /\ [][NextSession]_vars

\* One ingest by a pipeline whose provider answers the extraction prompt.
GraphLens == 1..2
GraphDocuments ==
    UNION {[1..n -> [source : Sources, content : {<<1>>}]] : n \in GraphLens}
InitGraph ==
    /\ documents \in GraphDocuments
    /\ batch_size = 1
    /\ store = NewStore("FaissDatabase", 1)
    /\ llm \in Providers
    /\ IngestEntry
SpecGraph == InitGraph /\ [][NextIngest]_vars

\* --------------------------------------- one pass of ingest, thread by thread
\* A variant of the join: the orchestrator goes on without the extraction.
join_without_extraction(t) == t.at = "await_extraction"
\* extraction_future.result() returns or raises: the future is finished.
extraction_future_result(t) ==
    t.at = "await_extraction" /\ t.extraction \in {"done", "failed"}
Write(structure, thread, joined) ==
    [structure |-> structure, thread |-> thread, joined |-> joined]
\* if not content: continue; else chunk_future = executor.submit(chunk_text, cleaned, 512)
SubmitChunk ==
    /\ pc = "loop" /\ di <= Len(documents) /\ tasks.at = "none"
    /\ IF documents[di].content = None
       THEN di' = di + 1 /\ tasks' = tasks
       ELSE /\ di' = di
            /\ tasks' = [tasks EXCEPT !.at = "submitted_chunk", !.doc = di,
                                      !.chunk = "running", !.chunks = <<>>]
    /\ UNCHANGED <<storeVars, documents, batch_size, pc, chunk_batch, docs_batch,
                   meta_batch, total_chunks, ret, produced, add_log, failed_chunks,
                   produced_from, flushed,
                   pipeVars, extractLog, runVars, answer, chunker>>
\* extraction_future = executor.submit(self._extract_structure_and_graph, ...)
SubmitExtraction ==
    /\ tasks.at = "submitted_chunk"
    /\ tasks' = [tasks EXCEPT !.at = "await_chunk", !.extraction = "running"]
    /\ UNCHANGED <<storeVars, documents, batch_size, pc, di, chunk_batch, docs_batch,
                   meta_batch, total_chunks, ret, produced, add_log, failed_chunks,
                   produced_from, flushed,
                   pipeVars, extractLog, runVars, answer, chunker>>
\* A worker thread runs chunk_text.
ChunkTask ==
    /\ tasks.chunk = "running"
    /\ tasks' = [tasks EXCEPT
           !.chunk = "done",
           !.chunks = chunk_text(clean_text(documents[tasks.doc].content).n,
                                 ChunkSize, DefaultOverlap)]
    /\ UNCHANGED <<storeVars, documents, batch_size, pc, di, chunk_batch, docs_batch,
                   meta_batch, total_chunks, ret, produced, add_log, failed_chunks,
                   produced_from, flushed,
                   pipeVars, extractLog, runVars, answer, chunker>>
\* A worker thread runs _extract_structure_and_graph: it writes the page index
\* and then, with a provider, asks for the triples and writes the graph.  The
\* provider's call may never return (hang): requests are sent with no timeout.
ExtractionTask ==
    /\ tasks.extraction = "running"
    /\ LET doc == documents[tasks.doc]
           cleaned == clean_text(doc.content)
           self == [page_index |-> page_index, graph |-> graph, llm |-> llm]
           joined == tasks.doc < di
       IN  \E out \in LlmOutcomes(llm, FALSE, SessionResponses), hang \in BOOLEAN :
             LET r == extract_structure_and_graph(self, doc.source,
                                                  Prefix(cleaned, SampleChars), out)
                 stuck == hang /\ llm # None /\ ~out.raised
             IN  /\ page_index' = r.page_index
                 /\ graph' = IF stuck THEN graph ELSE r.graph
                 /\ accepted' = IF stuck THEN accepted ELSE accepted \cup Range(r.triples)
                 /\ responses' = IF stuck \/ llm = None \/ out.raised \/ out.response = None
                                 THEN responses ELSE responses \cup {out.response}
                 /\ caught' = IF ~stuck /\ (r.caught \/ r.raised)
                              THEN caught \cup {<<runs, tasks.doc>>} ELSE caught
                 /\ tasks' = [tasks EXCEPT
                        !.extraction = IF stuck THEN "stuck"
                                       ELSE IF r.raised THEN "failed" ELSE "done",
                        !.writes = @ \cup {Write("page_index", "worker", joined)}
                                     \cup (IF graph' # graph
                                           THEN {Write("graph", "worker", joined)}
                                           ELSE {})]
    /\ UNCHANGED <<storeVars, documents, batch_size, pc, di, chunk_batch, docs_batch,
                   meta_batch, total_chunks, ret, produced, add_log, failed_chunks,
                   produced_from, flushed, llm, runVars, answer, chunker>>
\* chunks = chunk_future.result()
AwaitChunk ==
    /\ tasks.at = "await_chunk" /\ tasks.chunk = "done"
    /\ tasks' = [tasks EXCEPT !.at = "await_extraction"]
    /\ UNCHANGED <<storeVars, documents, batch_size, pc, di, chunk_batch, docs_batch,
                   meta_batch, total_chunks, ret, produced, add_log, failed_chunks,
                   produced_from, flushed,
                   pipeVars, extractLog, runVars, answer, chunker>>
\* extraction_future.result(), the end of the with block, and the rest of the
\* pass: the batches extended and flushed if due.
Join ==
    /\ pc = "loop" /\ extraction_future_result(tasks)
    /\ IF tasks.extraction = "failed"
       THEN /\ pc' = "raised"
            /\ UNCHANGED <<di, chunk_batch, docs_batch, meta_batch, total_chunks,
                           produced, add_log, failed_chunks, produced_from, flushed,
                           store, index_file, meta_file>>
       ELSE /\ pc' = pc
            /\ di' = di + 1
            /\ Accumulate(documents[di].source, tasks.chunks)
    /\ tasks' = [tasks EXCEPT
           !.at = "none", !.chunk = "none", !.chunks = <<>>,
           !.extraction = IF @ \in {"done", "failed"} THEN "none" ELSE @,
           !.joins = Append(@, [doc |-> di, chunk |-> tasks.chunk,
                                extraction |-> tasks.extraction]),
           !.writes = @ \cup (IF store' # store
                              THEN {Write("vector_index", "orchestrator", TRUE),
                                    Write("metadata_table", "orchestrator", TRUE)}
                              ELSE {})]
    /\ UNCHANGED <<documents, batch_size, ret, up, last, pipeVars, extractLog,
                   runVars, answer, chunker>>
ForkJoinLens == 0..2
ForkJoinDocuments ==
    UNION {[1..n -> [source : Sources, content : {None, <<1>>, <<463>>}]] :
              n \in ForkJoinLens}
InitForkJoin ==
    /\ documents \in ForkJoinDocuments
    /\ batch_size \in SessionBatchSizes
    /\ store = NewStore("FaissDatabase", 1)
    /\ llm \in {None} \cup Providers
    /\ IngestEntry
NextForkJoin ==
    \/ IngestStart
    \/ SubmitChunk
    \/ SubmitExtraction
    \/ ChunkTask
    \/ ExtractionTask
    \/ AwaitChunk
    \/ Join
    \/ IngestFinish
SpecForkJoin == InitForkJoin /\ [][NextForkJoin]_vars
\* The pool runs a submitted task, and the orchestrator goes on once the
\* future it waits for is finished.
SpecForkJoinFair ==
    SpecForkJoin /\ WF_vars(ChunkTask) /\ WF_vars(AwaitChunk)

\* ---------------------------------------------------------------- queries
QueryResponses == {<<"o", "k">>}
\* query(user_query): route, then run the executor of the engine.  A query
\* changes nothing but the answer, so the answers of later queries are those
\* of first queries.
Query ==
    /\ pc = "done" /\ answer = None
    /\ \E user_query \in UserQueries, embed_ok \in BOOLEAN :
         \E out \in LlmOutcomes(llm, TRUE, QueryResponses),
            I \in FaissCall(store, embed_text(user_query, EmbedDim(store)), QueryTopK) :
           LET self == [page_index |-> page_index, graph |-> graph, llm |-> llm]
               engine == route_query(user_query)
               executor == executor_of(engine)
               results == IF executor = "_engine_1_vector_rag"
                          THEN pipeline_search(store, user_query, embed_ok, I)
                          ELSE <<>>
               r == IF executor = "_engine_1_vector_rag"
                    THEN engine_1_vector_rag(self, results, out)
                    ELSE IF executor = "_engine_2_vectorless_rag"
                    THEN engine_2_vectorless_rag(self, results, out)
                    ELSE engine_3_graph_rag(self, results, out)
               called == /\ llm # None
                         /\ \/ executor = "_engine_1_vector_rag" /\ results # <<>>
                            \/ executor = "_engine_2_vectorless_rag"
                            \/ executor = "_engine_3_graph_rag"
                               /\ DOMAIN graph.edges # {}
           IN  answer' = [query |-> user_query, engine |-> engine,
                          executor |-> executor, results |-> results,
                          provider_failed |-> called /\ out.raised,
                          raised |-> r.raised, value |-> r.value]
    /\ UNCHANGED <<storeVars, documents, batch_size, pc, di, chunk_batch, docs_batch,
                   meta_batch, total_chunks, ret, produced, add_log, failed_chunks,
                   produced_from, flushed,
                   pipeVars, extractLog, runVars, sideVars>>

\* A pipeline that ingests once and is then queried.
QueryLens == 0..1
QueryDocuments ==
    UNION {[1..n -> [source : {"doc1"}, content : {<<1>>, <<463>>, <<1387>>}]] :
              n \in QueryLens}
InitQuery ==
    /\ documents \in QueryDocuments
    /\ batch_size = 1
    /\ store = NewStore("FaissDatabase", 1)
    /\ llm \in {None} \cup Providers
    /\ IngestEntry
NextQuery ==
    \/ IngestStart
    \/ IngestDoc(SessionResponses)
    \/ IngestFinish
    \/ Query
SpecQuery == InitQuery /\ [][NextQuery]_vars

\* ------------------------------------------------------------- extraction
\* What the provider answers an extraction prompt with: a JSON object alone or
\* within prose, one whose braces are backslash-escaped, braces around what is
\* no JSON, and prose.
ExtractResponses ==
    { <<"{", "\"", "a", "\"", ":", "1", "}">>,
      <<"o", "k", " ", "{", "\"", "a", "\"", ":", "1", "}", " ", ".">>,
      <<Backslash, "{", "\"", "a", "\"", ":", "1", Backslash, "}">>,
      <<"{", "a", "}">>,
      <<"n", "o">> }
ExtractQueries == {<<>>, <<"r", "e", "v", "e", "n", "u", "e">>}
\* extract(query, schema): the EXTRACT executor, called directly.
Extract ==
    /\ pc = "done" /\ answer = None
    /\ \E user_query \in ExtractQueries :
         \E out \in LlmOutcomes(llm, FALSE, ExtractResponses) :
           LET self == [page_index |-> page_index, graph |-> graph, llm |-> llm]
               r == engine_4_extract(self, out)
           IN  answer' = [query |-> user_query, engine |-> "ENGINE_4",
                          executor |-> "_engine_4_extract", results |-> <<>>,
                          provider_failed |-> llm # None /\ out.raised,
                          response |-> IF llm = None \/ out.raised
                                       THEN None ELSE out.response,
                          raised |-> r.raised, value |-> r.value]
    /\ UNCHANGED <<storeVars, documents, batch_size, pc, di, chunk_batch, docs_batch,
                   meta_batch, total_chunks, ret, produced, add_log, failed_chunks,
                   produced_from, flushed,
                   pipeVars, extractLog, runVars, sideVars>>
NextExtract ==
    \/ IngestStart
    \/ IngestDoc(SessionResponses)
    \/ IngestFinish
    \/ Extract
SpecExtract == InitQuery /\ [][NextExtract]_vars

\* ========================================================== the ingest claims
RECURSIVE Flatten(_)
Flatten(batches) ==
    IF batches = <<>> THEN <<>> ELSE Head(batches) \o Flatten(Tail(batches))

\* The chunk counts of the documents with content, summed.
RECURSIVE SumChunkCounts(_)
SumChunkCounts(docs) ==
    IF docs = <<>> THEN 0
    ELSE (IF Head(docs).content = None THEN 0
          ELSE Len(chunk_text(Head(docs).content[1], ChunkSize, DefaultOverlap)))
         + SumChunkCounts(Tail(docs))

\* ingest has returned from a call that loaded documents.
Ingested == pc = "done" /\ documents # <<>>

\* C8: between documents the pending batch is below batch_size (it was flushed
\* and reset when it reached it), every chunk produced so far is either in a
\* batch passed to add or still pending, in document order, and once ingest
\* has returned the chunks passed to add are exactly the chunks produced, each
\* once and in document order.
C8_FlushProtocol ==
    /\ pc = "loop" =>
           /\ Len(chunk_batch) < batch_size
           /\ Flatten(add_log) \o chunk_batch = produced
    /\ Ingested => Flatten(add_log) = produced

\* C9: the value ingest returns is the sum of the chunk counts of the loaded
\* documents with content, and the number of records the call added to the
\* vector store (which was empty when the call began).
C9_ReturnsChunksStored ==
    Ingested =>
        /\ ret = <<SumChunkCounts(documents)>>
        /\ ret = <<ntotal(store.index)>>
        /\ ret = <<MetaCount(store)>>

\* C10: once the embedding of a batch has raised, ingest has raised to its
\* caller (it neither goes on nor returns a count), and the batch is not in
\* the vector store.
C10_EmbeddingFailurePropagates ==
    failed_chunks > 0 =>
        /\ pc = "raised"
        /\ ntotal(store.index) + failed_chunks <= Len(produced)

\* ========================================================= the session claims
\* The sources of the documents with content among the first k loaded.
SourcesWithContent(k) ==
    {documents[i].source : i \in {j \in 1..k : documents[j].content # None}}
\* The structural entry of the last document with content that has source s.
LastEntryOf(s) ==
    LET js == {j \in 1..Len(documents) :
                  documents[j].content # None /\ documents[j].source = s}
        j == CHOOSE j \in js : \A i \in js : i <= j
    IN  page_index_entry(Prefix(clean_text(documents[j].content), SampleChars))
\* The extraction of a document of the running call caught an exception.
ExtractionFailed == \E c \in caught : c[1] = runs

\* C11: when the provider has failed during the extraction of a document,
\* ingest has not raised: it has accumulated the chunks of every document it
\* has passed, that one included, hands them to the flushes (all of them to
\* add, in order, while no embedding fails), and ends having passed every
\* document.
C11_ExtractionFailureContained ==
    ExtractionFailed =>
        /\ pc \in {"loop", "done"}
        /\ \A c \in caught : c[1] = runs => c[2] < di
        /\ Len(produced) = SumChunkCounts(SubSeq(documents, 1, di - 1))
        /\ failed_chunks = 0 =>
               Flatten(add_log) \o (IF pc = "loop" THEN chunk_batch ELSE <<>>) = produced
        /\ pc = "done" =>
               /\ di = Len(documents) + 1
               /\ ret = <<SumChunkCounts(documents)>>
C11_Witness ==
    /\ pc = "done" /\ <<1, 1>> \in caught /\ runs = 1
    /\ Len(documents) = 2 /\ documents[2].content # None
    /\ StoreCount(store) = SumChunkCounts(documents)
    /\ StoreCount(store) > 1

\* C12: ingest leaves one structural entry for the source of every document
\* with content that it has passed, and none for any other key, whether the
\* pipeline has no provider, one that answers or one that fails.
C12_StructuralIndexAlwaysWritten ==
    /\ pc \in {"loop", "done"} =>
           /\ SourcesWithContent(di - 1) \subseteq DOMAIN page_index
           /\ DOMAIN page_index \subseteq SourcesWithContent(Len(documents))
    /\ Ingested => DOMAIN page_index = SourcesWithContent(Len(documents))
C12_Witness ==
    /\ Ingested /\ llm # None /\ runs = 1
    /\ caught = {<<1, 1>>} /\ responses # {}
    /\ DOMAIN page_index = {"doc1", "doc2"}

\* C13: after the second ingest of the same documents the vector store has
\* grown by as many records as the first ingest added, and the structural map
\* holds for each source the entry of its last document.
C13_ReingestAppends ==
    (runs = 2 /\ Ingested) =>
        /\ StoreCount(store) - run_starts[2] = run_starts[2] - run_starts[1]
        /\ DOMAIN page_index = SourcesWithContent(Len(documents))
        /\ \A s \in DOMAIN page_index : page_index[s] = LastEntryOf(s)

\* ==================================================== the extraction claims
\* C14: the labelled edges of the graph are the distinct (source, relation,
\* target) given to add_edge so far: none is lost, one given twice is there
\* once, and one with the source and target of an earlier one and another
\* relation stands beside it.
C14_GraphKeepsEveryTriple ==
    LabelledEdges(graph) = accepted

\* The triples of the lines of a response that split on '|' into exactly three
\* parts, none of them empty once trimmed.
WellFormedTriples(response) ==
    LET lines == split(response, "\n")
        good == {i \in 1..Len(lines) :
                    LET parts == split(lines[i], "|")
                    IN  /\ Len(parts) = 3
                        /\ \A k \in 1..3 : strip(parts[k]) # <<>>}
    IN  {<<strip(split(lines[i], "|")[1]), strip(split(lines[i], "|")[2]),
           strip(split(lines[i], "|")[3])>> : i \in good}

\* C15: the edges added for the responses received are those of their
\* well-formed lines and no other, and the nodes of the graph are the ends of
\* those edges: a line of another shape adds neither node nor edge.
C15_OnlyWellFormedTriples ==
    LET wanted == UNION {WellFormedTriples(r) : r \in responses}
    IN  /\ accepted = wanted
        /\ graph.nodes = {t[1] : t \in wanted} \cup {t[3] : t \in wanted}
        /\ pc # "raised"

\* C16: each entry of the structural map, for the sample of a document of its
\* source, has at most 5 chapters, each a line of the sample that is a heading,
\* the sample's first 300 characters as summary, and the sample's length, at
\* most 2000, as total_chars.
C16_EntryDrawnFromSample ==
    \A s \in DOMAIN page_index :
        \E j \in 1..Len(documents) :
            /\ documents[j].source = s /\ documents[j].content # None
            /\ LET sample == Prefix(clean_text(documents[j].content), SampleChars)
                   entry == page_index[s]
               IN  /\ Len(entry.chapters) <= MaxChapters
                   /\ \A i \in 1..Len(entry.chapters) :
                          /\ entry.chapters[i] \in Range(lines_of(sample))
                          /\ \/ startswith_hash(entry.chapters[i])
                             \/ isupper(entry.chapters[i])
                   /\ entry.summary = Prefix(sample, SummaryChars)
                   /\ entry.total_chars = sample.len
                   /\ entry.total_chars <= SampleChars

\* ========================================================= the query claims
HasVectorlessKeyword(query) ==
    \E kw \in {KwSummarize, KwChapter, KwOverallTone} : Contains(lower(query), kw)
HasGraphKeyword(query) ==
    \E kw \in {KwConnected, KwRelationship, KwHowIs} : Contains(lower(query), kw)
Asked == answer # None

\* C17: a query with a VECTORLESS keyword and a GRAPH keyword, in any letter
\* case, is routed to ENGINE_2 (VECTORLESS).
C17_VectorlessBeforeGraph ==
    (Asked /\ HasVectorlessKeyword(answer.query) /\ HasGraphKeyword(answer.query))
        => answer.engine = "ENGINE_2"
C17_Witness ==
    /\ Asked /\ answer.engine = "ENGINE_2"
    /\ Contains(answer.query, KwConnected)
    /\ Contains(lower(answer.query), KwSummarize)
    /\ ~Contains(answer.query, KwSummarize)

\* C18: every query gets one of ENGINE_1 (VECTOR), ENGINE_2 (VECTORLESS) and
\* ENGINE_3 (GRAPH): ENGINE_1 without a keyword, ENGINE_2 with "summarize",
\* ENGINE_3 with "connected" and no VECTORLESS keyword; and query runs the
\* executor of the engine it got.
C18_RouteTotalAndDispatched ==
    Asked =>
        /\ answer.engine \in {"ENGINE_1", "ENGINE_2", "ENGINE_3"}
        /\ (~HasVectorlessKeyword(answer.query) /\ ~HasGraphKeyword(answer.query))
               => answer.engine = "ENGINE_1"
        /\ Contains(lower(answer.query), KwSummarize) => answer.engine = "ENGINE_2"
        /\ (Contains(lower(answer.query), KwConnected)
                /\ ~HasVectorlessKeyword(answer.query))
               => answer.engine = "ENGINE_3"
        /\ answer.engine = "ENGINE_1" => answer.executor = "_engine_1_vector_rag"
        /\ answer.engine = "ENGINE_2" => answer.executor = "_engine_2_vectorless_rag"
        /\ answer.engine = "ENGINE_3" => answer.executor = "_engine_3_graph_rag"
C18_Witness ==
    /\ Asked /\ answer.engine = "ENGINE_3"
    /\ answer.executor = "_engine_3_graph_rag"
    /\ answer.value = GraphEmpty
    /\ llm # None

\* C19: without a provider, the GRAPH executor on a graph without edges
\* returns the "graph empty" message, the VECTORLESS executor returns the "not
\* configured" message, and neither raises.
C19_MessagesWithoutProvider ==
    (Asked /\ llm = None) =>
        /\ ~answer.raised
        /\ (answer.executor = "_engine_3_graph_rag" /\ DOMAIN graph.edges = {})
               => answer.value = GraphEmpty
        /\ answer.executor = "_engine_2_vectorless_rag" => answer.value = NotConfigured

\* C20: when the provider's generate call has failed, query has not raised,
\* and where there was retrieved context the answer is that context.
C20_ProviderFailureCaught ==
    (Asked /\ answer.provider_failed) =>
        /\ ~answer.raised
        /\ answer.results # <<>> => answer.value = Context(answer.results, FALSE)


\* C21: the VECTOR executor retrieves with top_k = 3 and answers in this order:
\* nothing retrieved, the fixed "no relevant information" message, whatever the
\* provider; else, with no provider, the retrieved texts under the "[Retrieved
\* Context" heading; else what the provider generated for the query and the
\* retrieved texts.
C21_VectorExecutorOrder ==
    (Asked /\ answer.executor = "_engine_1_vector_rag") =>
        /\ ~answer.raised
        /\ Len(answer.results) <= QueryTopK
        /\ answer.results # <<>> =>
               Len(answer.results) = Min(QueryTopK, StoreCount(store))
        /\ answer.results = <<>> => answer.value = NothingFound
        /\ (answer.results # <<>> /\ llm = None) =>
               answer.value = Context(answer.results, TRUE)
        /\ (answer.results # <<>> /\ llm # None /\ ~answer.provider_failed) =>
               answer.value \in {Generated(response) : response \in QueryResponses}
\* Three of four stored chunks are retrieved and the provider's text returned.
C21_Witness ==
    /\ Asked /\ answer.executor = "_engine_1_vector_rag"
    /\ StoreCount(store) > QueryTopK /\ Len(answer.results) = QueryTopK
    /\ llm # None /\ answer.value \in {Generated(response) : response \in QueryResponses}


\* ====================================================== the extraction claim
AskedToExtract == answer # None /\ answer.executor = "_engine_4_extract"
\* The text from the first '{' to the last '}' of a response; None without one.
BraceSpan(response) ==
    LET opens == {i \in 1..Len(response) : response[i] = "{"}
        closes == {j \in 1..Len(response) : response[j] = "}"}
    IN  IF opens = {} \/ closes = {} THEN None
        ELSE LET i == CHOOSE a \in opens : \A b \in opens : a <= b
                 j == CHOOSE a \in closes : \A b \in closes : b <= a
             IN  IF i < j THEN SubSeq(response, i, j) ELSE None

\* C22: the EXTRACT executor never raises; a response that contains a JSON
\* object gives the parsed object, and one whose brace-delimited text does not
\* parse gives the raw response tagged as raw output, not an error object.
C22_ExtractParsesOrKeepsRawText ==
    AskedToExtract =>
        /\ ~answer.raised
        /\ answer.response # None =>
             LET span == BraceSpan(answer.response)
             IN  /\ (span # None /\ IsJsonObject(span)) => answer.value = Parsed(span)
                 /\ (span # None /\ ~IsJsonObject(span)) =>
                        answer.value = [raw_output |-> answer.response]


\* ======================================================== the chunking claims
Returned == chunker.pc = "returned"
InContract == chunker.overlap < chunker.chunk_size
\* The positions of the tokens of a chunk, in order.
TokensOf(chunk) == [i \in 1..(chunk[3] - chunk[2]) |-> chunk[2] + i - 1]
\* The tokens of a chunk after its first k.
DropFirst(s, k) == SubSeq(s, k + 1, Len(s))

\* C23: for 0 <= overlap < chunk_size every chunk has at most chunk_size
\* tokens, and every chunk after the first, except possibly the last, begins
\* with exactly the last overlap tokens of the chunk before it.
C23_ChunksOverlapExactly ==
    (Returned /\ InContract) =>
        \A k \in 1..Len(chunker.chunks) :
            /\ Len(TokensOf(chunker.chunks[k])) <= chunker.chunk_size
            /\ (1 < k /\ k < Len(chunker.chunks)) =>
                 LET this == TokensOf(chunker.chunks[k])
                     before == TokensOf(chunker.chunks[k - 1])
                 IN  /\ Len(this) >= chunker.overlap
                     /\ Len(before) >= chunker.overlap
                     /\ SubSeq(this, 1, chunker.overlap)
                            = DropFirst(before, Len(before) - chunker.overlap)

\* The chunks with the first overlap tokens of all but the first dropped, joined.
RECURSIVE Reassemble(_, _, _)
Reassemble(chunks, overlap, k) ==
    IF k > Len(chunks) THEN <<>>
    ELSE DropFirst(TokensOf(chunks[k]), IF k = 1 THEN 0 ELSE overlap)
             \o Reassemble(chunks, overlap, k + 1)

\* C24: for 0 <= overlap < chunk_size, dropping the first overlap tokens of
\* every chunk after the first and concatenating gives back the tokens of the
\* text, and a text without tokens gives no chunks.
C24_ChunksReassemble ==
    (Returned /\ InContract) =>
        /\ Reassemble(chunker.chunks, chunker.overlap, 1) = [i \in 1..chunker.n |-> i - 1]
        /\ chunker.n = 0 => chunker.chunks = <<>>
\* A text cut into several overlapping chunks, the last one short.
C24_Witness ==
    /\ Returned /\ InContract /\ chunker.overlap > 0
    /\ Len(chunker.chunks) >= 3
    /\ Len(TokensOf(chunker.chunks[Len(chunker.chunks)])) < chunker.overlap

\* ceil(a / b)
CeilDiv(a, b) == (a + b - 1) \div b
\* C28: a chunk_text call with overlap < chunk_size returns, and for a text of
\* n > 0 tokens it returns ceil(n / (chunk_size - overlap)) chunks; the calls
\* ingest and TextPipeline.process make (512, 50) are among them.
C28_ChunkingTerminates ==
    (chunker.pc = "loop" /\ InContract) ~>
        (/\ Returned /\ InContract
         /\ chunker.n > 0 =>
              Len(chunker.chunks) = CeilDiv(chunker.n, chunker.chunk_size - chunker.overlap))
\* The call ingest makes for a text of 1387 tokens has returned its 4 chunks.
C28_Witness ==
    /\ Returned /\ chunker.chunk_size = ChunkSize /\ chunker.overlap = DefaultOverlap
    /\ chunker.n > ChunkSize /\ Len(chunker.chunks) > 3


\* ======================================================== the batching claims
\* Field f of every batch handed to _embed_and_store, joined.
FlushedAll(f) == Flatten([k \in 1..Len(flushed) |-> flushed[k][f]])
\* The source of the document the k-th chunk produced came from.
SourceOfChunk(k) == documents[produced_from[k]].source
Pending == IF pc = "loop" THEN Len(chunk_batch) ELSE 0

\* C27: the pending texts and the pending metadata always have the same
\* length, and every record passed to add carries as its metadata's source the
\* source of the document whose chunk is the record's text.
C27_MetadataPairedWithChunks ==
    /\ Len(chunk_batch) = Len(meta_batch)
    /\ Len(docs_batch) = Len(meta_batch)
    /\ \A i \in 1..Pending :
         LET k == Len(produced) - Pending + i
         IN  docs_batch[i] = produced[k] /\ meta_batch[i].source = SourceOfChunk(k)
    /\ Len(FlushedAll("docs")) = Len(FlushedAll("metadata"))
    /\ \A k \in 1..Len(FlushedAll("docs")) :
         /\ FlushedAll("docs")[k] = produced[k]
         /\ FlushedAll("metadata")[k].source = SourceOfChunk(k)
\* One batch with the chunks of two documents of different sources was added.
C27_Witness ==
    \E b \in Range(flushed) :
        /\ b.added /\ Len(b.docs) >= 3
        /\ \E i, j \in 1..Len(b.metadata) : b.metadata[i].source # b.metadata[j].source


\* The number of chunks handed over in the batches before the k-th.
RECURSIVE FlushedBefore(_)
FlushedBefore(k) == IF k <= 1 THEN 0 ELSE FlushedBefore(k - 1) + Len(flushed[k - 1].chunks)
\* The number of chunks cut from the document at position d.
ChunksOfDocument(d) == Cardinality({k \in 1..Len(produced) : produced_from[k] = d})
InLoop == pc \in {"loop", "p_loop"}

\* C29: batches are cut only at document boundaries: the chunks of a document
\* are never split across two batches, every batch flushed before the final
\* one holds at least batch_size chunks, and a batch holds fewer than
\* batch_size plus the chunk count of its last document.
C29_BatchesCutAtDocumentBoundaries ==
    \A k \in 1..Len(flushed) :
        LET first == FlushedBefore(k) + 1
            last_one == FlushedBefore(k) + Len(flushed[k].chunks)
        IN  /\ flushed[k].chunks # <<>>
            /\ \A i \in first..last_one : flushed[k].chunks[i - first + 1] = produced[i]
            /\ first > 1 => produced_from[first - 1] # produced_from[first]
            /\ last_one < Len(produced) => produced_from[last_one] # produced_from[last_one + 1]
            /\ (k < Len(flushed) \/ InLoop) => Len(flushed[k].chunks) >= batch_size
            /\ Len(flushed[k].chunks)
                   < batch_size + ChunksOfDocument(produced_from[last_one])
\* A batch of one whole document and the whole of a two-chunk document, larger
\* than batch_size, was flushed before the final one.
C29_Witness ==
    /\ Len(flushed) >= 2
    /\ Len(flushed[1].chunks) > batch_size
    /\ \E i, j \in 1..Len(flushed[1].chunks) : produced_from[i] # produced_from[j]
    /\ pc = "done"

\* C30: after a TextPipeline.process run that flushed several batches through
\* insert_vectors, the ids of a batch are distinct from those of the batches
\* before it, so the store holds as many vectors as chunks were processed.
C30_LegacyIdsDistinctAcrossBatches ==
    (pc = "done" /\ store.cls \in LegacyClasses /\ Len(flushed) >= 2) =>
        LegacyCount(store) = Len(produced)


\* ======================================================= the fork-join claims
\* C25: during ingest the vector index, the metadata table, the structural
\* index and the graph are written by the orchestrator thread only, and only
\* after the join of the document; no thread of the pool writes any of them.
C25_OnlyOrchestratorWritesAfterJoin ==
    \A w \in tasks.writes : w.thread = "orchestrator" /\ w.joined

Stuck == tasks.extraction = "stuck"
\* Both futures exist before either is awaited; the futures outstanding are
\* those of the document the loop is at, none of whose chunks is accumulated
\* or flushed; the orchestrator has left the block only with both finished;
\* a provider call that never returns keeps ingest at that document.
C26_Ordering ==
    /\ tasks.at \in {"await_chunk", "await_extraction"} =>
           tasks.chunk # "none" /\ tasks.extraction # "none"
    /\ (tasks.chunk # "none" \/ tasks.extraction # "none") =>
           /\ tasks.doc = di /\ pc = "loop"
           /\ \A k \in 1..Len(produced) : produced_from[k] < di
    /\ \A j \in 1..Len(tasks.joins) :
           /\ tasks.joins[j].chunk = "done"
           /\ tasks.joins[j].extraction \in {"done", "failed"}
    /\ Stuck => tasks.at # "none"
\* C26: the two tasks of a document are started before either is awaited;
\* nothing of the next document is started, and nothing of this one is
\* accumulated or flushed, until both have finished; a generation call that
\* never returns blocks ingest at the join of its document, while the chunking
\* task of that document still completes.
C26_ForkJoinOrdering ==
    /\ []C26_Ordering
    /\ Stuck ~> (Stuck /\ tasks.chunk = "done" /\ tasks.at = "await_extraction")
\* At its second document ingest waits for an extraction that never returns;
\* the chunks of that document are ready.
C26_Witness ==
    /\ Stuck /\ tasks.chunk = "done" /\ tasks.at = "await_extraction"
    /\ di = 2 /\ Len(tasks.joins) = 1 /\ tasks.chunks # <<>>

=============================================================================
